---------------------------- MODULE Spec2Model ----------------------------
(***************************************************************************)
(* Timed dub track synthesis: the POST handler of api/translate-stream     *)
(* (route.ts), generateGeorgianAudio, adjustAudioSpeed, normalizeAudio and  *)
(* stitchAudioWithTiming (services/tts.ts) and generateSpeechEdge          *)
(* (edge-tts), over a shared output directory; before them, the caption    *)
(* merge of getYouTubeTranscript (services/tts.ts) and the index mapping   *)
(* of translateTranscript (services/gemini.ts).                            *)
(*                                                                         *)
(* Times are integers in ticks; one millisecond is TicksPerMs ticks, so a  *)
(* start time can fall between two milliseconds, as a JS number can.       *)
(***************************************************************************)
EXTENDS Integers, Sequences, FiniteSets, TLC

\* ------------------------------------------------------------------ bounds

\* resolution of the time axis: ticks per millisecond
TicksPerMs == 10
\* longest list of units of one run
MaxUnits == 2
\* runs of the pipeline on the same video (SpecRuns)
MaxRuns == 2
\* how far (ms) the compressor's measured output may overshoot the exact one
ProbeJitter == 20
\* longest list of caption fragments read from the subtitle file
MaxFrags == 3
\* longest answer of the translation model
MaxTrans == 3
MaxClipTicks == 12
MaxTargetTicks == 5
MaxChunks == 2

\* ------------------------------------------------------- program constants

\* Math.floor(exactStart * 1000): milliseconds per second
MsPerSec == 1000
\* availableTime = Math.max(availableTime, 0.5), in ms
FloorMs == 500
\* const maxSpeedup = 3.0
MaxSpeedup == 3
\* atempo accepts at most 2.0 per stage
AtempoMax == 2
\* toFixed(4): stage factors carry four decimals
FixedScale == 10000
\* gap < 0.3, in ms
MergeGapMs == 300
\* combinedDuration < 10, in seconds
MergeCapSec == 10
\* setTimeout(r, 800) after a call that succeeded at once
PacingMs == 800
\* setTimeout(r, 2000) before the retry
BackoffMs == 2000

Ms(n) == n * TicksPerMs
Sec(n) == Ms(n * MsPerSec)

Min(a, b) == IF a <= b THEN a ELSE b
Max(a, b) == IF a >= b THEN a ELSE b

NoFile == [none |-> TRUE]

\* ------------------------------------------------------------------- text

\* String.prototype.trim over the alphabet {"a", " ", "[", "]"}
RECURSIVE TrimLeft(_)
TrimLeft(s) ==
    IF s = << >> THEN s
    ELSE IF Head(s) = " " THEN TrimLeft(Tail(s)) ELSE s

RECURSIVE TrimRight(_)
TrimRight(s) ==
    IF s = << >> THEN s
    ELSE IF s[Len(s)] = " " THEN TrimRight(SubSeq(s, 1, Len(s) - 1)) ELSE s

Trim(s) == TrimRight(TrimLeft(s))

\* position of the first "]" at or after position k, 0 when there is none
RECURSIVE NextClose(_, _)
NextClose(s, k) ==
    IF k > Len(s) THEN 0
    ELSE IF s[k] = "]" THEN k ELSE NextClose(s, k + 1)

\* text.replace(/\[.*?\]/g, ''): every "[", up to the nearest "]" after it,
\* is removed; an unclosed "[" stays
RECURSIVE StripBrackets(_)
StripBrackets(s) ==
    IF s = << >> THEN s
    ELSE IF Head(s) = "[" /\ NextClose(s, 2) # 0
         THEN StripBrackets(SubSeq(s, NextClose(s, 2) + 1, Len(s)))
         ELSE <<Head(s)>> \o StripBrackets(Tail(s))

\* const cleanText = segment.text.replace(/\[.*?\]/g, '').trim()
CleanText(text) == Trim(StripBrackets(text))

\* the two `continue` guards at the head of the synthesis loop
IsSkipped(text) == text = << >> \/ Trim(text) = << >> \/ CleanText(text) = << >>

\* ------------------------------------------------------------------ paths

\* path.join(outputDir, `${videoId}_segment_${i}.mp3`), i the 0-based index
SegmentPath(idx) == [kind |-> "segment", idx |-> idx]
\* segment.audioPath.replace('.mp3', '_adjusted.mp3')
AdjustedPathInPlace(p) == p

AdjustedPath(p) == [kind |-> "segment_adjusted", idx |-> p.idx]
\* `${videoId}_georgian.mp3`
FinalAudioPath == [kind |-> "georgian", idx |-> 0]
\* outputPath.replace('.mp3', '_filter.txt')
FilterScriptPath == [kind |-> "georgian_filter", idx |-> 0]
\* `${videoId}_meta.json`
MetadataFile == [kind |-> "meta", idx |-> 0]


\* ---------------------------------------------------------------- sorting

\* [...segments].sort((a, b) => a.start - b.start): stable, ascending start
RECURSIVE InsertByStart(_, _)
InsertByStart(sorted, seg) ==
    IF sorted = << >> THEN <<seg>>
    ELSE IF sorted[Len(sorted)].start <= seg.start THEN Append(sorted, seg)
    ELSE Append(InsertByStart(SubSeq(sorted, 1, Len(sorted) - 1), seg),
                sorted[Len(sorted)])

RECURSIVE SortFrom(_, _, _)
SortFrom(segs, k, acc) ==
    IF k > Len(segs) THEN acc
    ELSE SortFrom(segs, k + 1, InsertByStart(acc, segs[k]))

SortByStartUnsorted(segs) == segs

SortByStart(segs) == SortFrom(segs, 1, << >>)

\* ------------------------------------------------------- timing resolver

\* a duration that need not be a whole number of ticks: num / den, den > 0
Rat(num, den) == [num |-> num, den |-> den]

\* availableTime of sortedSegments[i] (1-based here)
AvailableTime(sorted, i) ==
    LET segment == sorted[i]
        targetDuration == segment.end - segment.start
    IN  IF i < Len(sorted)
        THEN Max(Min(targetDuration, sorted[i + 1].start - segment.start),
                 Ms(FloorMs))
        ELSE targetDuration

\* if (ttsDuration > availableTime)
NeedsSpeedupGeq(ttsDuration, availableTime) == ttsDuration >= availableTime

NeedsSpeedup(ttsDuration, availableTime) == ttsDuration > availableTime

\* speedFactor <= maxSpeedup, speedFactor = ttsDuration / availableTime as a
\* JS number: +Infinity for a zero divisor, negative for a negative one
SpeedFactorWithinMax(ttsDuration, availableTime) ==
    IF availableTime > 0 THEN ttsDuration <= MaxSpeedup * availableTime
    ELSE IF availableTime = 0 THEN ttsDuration <= 0
    ELSE ttsDuration >= 0

\* the target duration handed to adjustAudioSpeed by either branch
SpeedTargetUncapped(ttsDuration, availableTime) == Rat(availableTime, 1)

SpeedTarget(ttsDuration, availableTime) ==
    IF SpeedFactorWithinMax(ttsDuration, availableTime)
    THEN Rat(availableTime, 1)
    ELSE Rat(ttsDuration, MaxSpeedup)

\* ------------------------------------------------------ adjustAudioSpeed

\* remainingFactor.toFixed(4) of n / d, as a count of 1/FixedScale
ToFixed4(n, d) ==
    LET scaled == FixedScale * n
    IN  (scaled \div d) + (IF 2 * (scaled % d) >= d THEN 1 ELSE 0)

\* the atempo chain for speedFactor = n / d (d > 0), each stage a count of
\* 1/FixedScale: 'atempo=2.0' while the remaining factor exceeds 2.0, then
\* the remainder when it exceeds 1.0
AtempoChainSingleStage(n, d) == IF n > d THEN <<ToFixed4(n, d)>> ELSE << >>

RECURSIVE AtempoChainNoRemainder(_, _)
AtempoChainNoRemainder(n, d) ==
    IF n > AtempoMax * d
    THEN <<AtempoMax * FixedScale>> \o AtempoChainNoRemainder(n, AtempoMax * d)
    ELSE << >>

RECURSIVE AtempoChain(_, _)
AtempoChain(n, d) ==
    IF n > AtempoMax * d
    THEN <<AtempoMax * FixedScale>> \o AtempoChain(n, AtempoMax * d)
    ELSE IF n > d THEN <<ToFixed4(n, d)>> ELSE << >>

\* atempoFilters for an input of actualDuration and a target; a target that
\* is not positive gives a factor that is not above 1.0 (negative) and no
\* stage. (A zero target is never passed by stitchAudioWithTiming.)
AtempoFilters(actualDuration, target) ==
    IF target.num <= 0 THEN << >>
    ELSE AtempoChain(actualDuration * target.den, target.num)

\* the duration ffmpeg's atempo chain gives an input of `actual` ticks:
\* each stage divides the duration by its factor, rounded up to a tick
RECURSIVE CompressedDuration(_, _)
CompressedDuration(actual, chain) ==
    IF chain = << >> THEN actual
    ELSE CompressedDuration(
            (actual * FixedScale + Head(chain) - 1) \div Head(chain),
            Tail(chain))

\* what the compressor's output may measure beyond the exact duration
Jitter == {0, Ms(ProbeJitter)}

AdjustAudioSpeedKeepsOutput(fs, inputPath, outputPath, target, ok, jit) ==
    LET actualDuration == fs[inputPath].dur
        chain == AtempoFilters(actualDuration, target)
    IN  IF actualDuration * target.den <= target.num \/ chain = << >>
        THEN [fs EXCEPT ![outputPath] = fs[inputPath]]
        ELSE [fs EXCEPT ![outputPath] =
                 [fs[inputPath] EXCEPT
                     !.dur = CompressedDuration(actualDuration, chain) + jit]]

\* adjustAudioSpeed(inputPath, outputPath, targetDuration): the files after
\* the call. ok: ffmpeg exited 0; jit: the measurement error of its output.
AdjustAudioSpeed(fs, inputPath, outputPath, target, ok, jit) ==
    LET actualDuration == fs[inputPath].dur
        chain == AtempoFilters(actualDuration, target)
        copied == [fs EXCEPT ![outputPath] = fs[inputPath]]
    IN  IF actualDuration * target.den <= target.num THEN copied
        ELSE IF chain = << >> THEN copied
        ELSE IF ok
             THEN [fs EXCEPT ![outputPath] =
                      [fs[inputPath] EXCEPT
                          !.dur = CompressedDuration(actualDuration, chain) + jit]]
             ELSE copied

\* whether the call above runs ffmpeg at all
RunsCompressor(fs, inputPath, target) ==
    /\ fs[inputPath].dur * target.den > target.num
    /\ AtempoFilters(fs[inputPath].dur, target) # << >>

\* ------------------------------------------------------------- compositor

\* Math.floor(exactStart * 1000)
DelayMsCeil(exactStart) == (exactStart + TicksPerMs - 1) \div TicksPerMs

DelayMs(exactStart) == exactStart \div TicksPerMs

\* the ffmpeg command line of the mix: the inputs, their adelay values and
\* the -t limit (t holds the value of -t, or nothing without a -t)
MixArgsNoLimit(adjusted, total) ==
    [inputs |-> [k \in 1..Len(adjusted) |-> adjusted[k].audioPath],
     delays |-> [k \in 1..Len(adjusted) |-> DelayMs(adjusted[k].exactStart)],
     duration |-> "longest",
     t      |-> << >>]

MixArgsShortest(adjusted, total) ==
    [inputs |-> [k \in 1..Len(adjusted) |-> adjusted[k].audioPath],
     delays |-> [k \in 1..Len(adjusted) |-> DelayMs(adjusted[k].exactStart)],
     duration |-> "shortest",
     t      |-> <<total>>]

MixArgs(adjusted, total) ==
    [inputs |-> [k \in 1..Len(adjusted) |-> adjusted[k].audioPath],
     delays |-> [k \in 1..Len(adjusted) |-> DelayMs(adjusted[k].exactStart)],
     duration |-> "longest",
     t      |-> <<total>>]

RECURSIVE MaxOver(_, _)
MaxOver(f, k) == IF k = 0 THEN 0 ELSE Max(f[k], MaxOver(f, k - 1))

RECURSIVE MinOver(_, _)
MinOver(f, k) == IF k = 1 THEN f[1] ELSE Min(f[k], MinOver(f, k - 1))

\* amix=...:duration=longest under -t: the mix lasts until the last delayed
\* input ends (duration=shortest: until the first one ends) and is cut at
\* the -t limit
MixedDuration(fs, args) ==
    LET ends == [k \in 1..Len(args.inputs) |->
                    Ms(args.delays[k]) + fs[args.inputs[k]].dur]
        whole == IF args.duration = "longest"
                 THEN MaxOver(ends, Len(args.inputs))
                 ELSE MinOver(ends, Len(args.inputs))
    IN  IF args.t = << >> THEN whole ELSE Min(whole, args.t[1])

\* -------------------------------------- getYouTubeTranscript: the merge

\* let currentSegment: TranscriptSegment | null = null
Null == [none |-> TRUE]

\* if (gap < 0.3 && combinedDuration < 10)
MergesUpToGap(currentSegment, seg) ==
    /\ seg.start - currentSegment.end <= Ms(MergeGapMs)
    /\ seg.end - currentSegment.start < Sec(MergeCapSec)

MergesUncapped(currentSegment, seg) ==
    seg.start - currentSegment.end < Ms(MergeGapMs)

Merges(currentSegment, seg) ==
    LET gap == seg.start - currentSegment.end
        combinedDuration == seg.end - currentSegment.start
    IN  gap < Ms(MergeGapMs) /\ combinedDuration < Sec(MergeCapSec)

\* currentSegment.end = seg.end; currentSegment.text += ' ' + seg.text
MergeInto(currentSegment, seg) ==
    [currentSegment EXCEPT !.end = seg.end,
                           !.text = @ \o <<" ">> \o seg.text]

\* if (currentSegment) mergedSegments.push(currentSegment)
PushCurrentNever(merged, current) == merged

PushCurrent(merged, current) ==
    IF current = Null THEN merged ELSE Append(merged, current)

\* ------------------------------------ translateTranscript: the mapping

\* trans.index of one element of the model's answer: <<k>> for the number
\* k, << >> when the element has no index
Undefined == << >>

Trans(index, text) == [index |-> index, text |-> text]

\* originalIndex !== undefined && originalIndex < segments.length
\*     && !usedIndices.has(originalIndex)
AcceptsUsed(originalIndex, segs, used) ==
    /\ originalIndex # Undefined
    /\ originalIndex[1] < Len(segs)

Accepts(originalIndex, segs, used) ==
    /\ originalIndex # Undefined
    /\ originalIndex[1] < Len(segs)
    /\ originalIndex[1] \notin used

\* segments[originalIndex] is undefined for an index that is not one of
\* 0 .. length - 1, and reading its start throws a TypeError
HasElement(originalIndex, segs) == originalIndex[1] \in 0..(Len(segs) - 1)

\* result.sort((a, b) => a.start - b.start)
SortResultKeepOrder(res) == res

SortResult(res) == SortFrom(res, 1, << >>)

\* ------------------------------------------------------------------ state

VARIABLES
    run,                \* which run of the pipeline on this video this is
    pc,                 \* where the POST handler stands
    segments,           \* translationSegments of the run
    totalDuration,      \* metadata.duration
    i,                  \* the loop index (1-based) of the loop in progress
    segmentFiles,       \* generateGeorgianAudio's segmentFiles
    calls,              \* the generateSpeechEdge calls of the run, in order
    files,              \* the output directory: path -> content or NoFile
    segmentsWithPaths,  \* the clips handed to stitchAudioWithTiming
    sortedSegments,     \* stitchAudioWithTiming's sortedSegments
    adjustedSegments,   \* stitchAudioWithTiming's adjustedSegments
    resolveLog,         \* per resolved unit: durations, target, atempo chain
    mixArgs,            \* the mix commands issued, in order
    events,             \* the stages sent on the stream by sendProgress
    env,                \* what the external tools may do in this behaviour
    captionSegments,    \* getYouTubeTranscript's segments (the fragments)
    currentSegment,     \* getYouTubeTranscript's currentSegment
    mergedSegments,     \* getYouTubeTranscript's mergedSegments
    translations,       \* translateTranscript's translations
    usedIndices,        \* translateTranscript's usedIndices
    result,             \* translateTranscript's result
    entry,              \* the endpoint that runs the pipeline
    chunks,             \* client: the reads of the response body to come
    loading,            \* client: handleTranslate's loading
    pendingResult,      \* client: handleTranslate's pendingResult
    progress            \* client: handleTranslate's progress

\* the state of stages 1 and 2 (transcript, translation)
transcriptVars == <<captionSegments, currentSegment, mergedSegments,
                    translations, usedIndices, result>>

\* the state of stages 3 and 4 (synthesis, stitch)
dubVars == <<segmentFiles, calls, files, segmentsWithPaths, sortedSegments,
             adjustedSegments, resolveLog, mixArgs>>

\* the state of the page that reads the stream
clientVars == <<chunks, loading, pendingResult, progress>>

vars == <<run, pc, segments, totalDuration, i, segmentFiles, calls, files,
          segmentsWithPaths, sortedSegments, adjustedSegments, resolveLog,
          mixArgs, events, env, captionSegments, currentSegment,
          mergedSegments, translations, usedIndices, result, entry, chunks,
          loading, pendingResult, progress>>

\* --------------------------------------------------------------- inputs

Unit(start, end, text) == [start |-> start, end |-> end, text |-> text]

HalfMs == TicksPerMs \div 2

\* units of the timing scenarios: back-to-back windows, a unit whose
\* successor starts before its own end, two units half a millisecond
\* apart, a unit of no length (an event without dDurationMs), a unit that
\* is only a sound annotation
UnitPool ==
    { Unit(0, Sec(2), <<"a">>),
      Unit(0, Sec(1), <<"a">>),
      Unit(Ms(1200), Sec(4), <<"a">>),
      Unit(Ms(1200) + HalfMs, Ms(2700) + HalfMs, <<"a">>),
      Unit(Sec(5), Sec(5), <<"a">>),
      Unit(Sec(2), Sec(4), <<"[", "a", "]">>) }

\* scenario A of the specification
ScenarioA ==
    << Unit(0, Sec(2), <<"a">>), Unit(Sec(2), Sec(4), <<"a">>),
       Unit(Sec(4), Sec(6), <<"a">>) >>

SeqsUpTo(S, n) == UNION { [1..k -> S] : k \in 1..n }

TtsDurs == { Sec(2), Sec(4) }
TotalDurs == { Sec(3), Sec(6) }

\* texts of the re-run scenarios
RunTexts ==
    { <<"a">>, <<"[", "a", "]">>, <<" ">>, <<"[", "a", "]", " ", "a">> }

\* unit k of a re-run scenario speaks in the window [2(k-1) s, 2k s)
RunSeqs ==
    UNION { { [k \in 1..n |-> Unit(Sec(2 * (k - 1)), Sec(2 * k), t[k])] :
                t \in [1..n -> RunTexts] } : n \in 1..MaxUnits }

MaxIdx == Max(MaxUnits, Len(ScenarioA)) - 1

TempNormPath == [kind |-> "georgian_temp_norm", idx |-> 0]

Paths ==
    { SegmentPath(k) : k \in 0..MaxIdx }
    \cup { AdjustedPath(SegmentPath(k)) : k \in 0..MaxIdx }
    \cup { FinalAudioPath, FilterScriptPath, MetadataFile, TempNormPath }

Exists(fs, p) == fs[p] # NoFile

\* how one generateSpeechEdge call may end: it returns; it throws before
\* anything is copied to outputPath (toFile rejects, audio.mp3 is missing,
\* copyFileSync throws); it throws after copyFileSync wrote outputPath
\* (unlinkSync or rmdirSync throws)
SpeechOutcomes == {"ok", "fail", "fail_written"}

\* the external tools of one behaviour: the clip lengths the speech
\* provider produces, how its calls may end, how ffmpeg may exit
Env(durs, speech, tools) == [durs |-> durs, speech |-> speech, tools |-> tools]

\* the stages reported down the transcript path before stage 3: lines 31,
\* 41, 43, 49 and 52 of route.ts
EventsBeforeTts ==
    <<"download", "download", "download", "translate", "translate">>

\* what the handler has sent when generateGeorgianAudio is entered: the
\* streaming route its stage reports, the plain route nothing
EventsBefore(ent) == IF ent = "stream" THEN EventsBeforeTts ELSE << >>

\* sendProgress(data): only the streaming route has a stream to write to;
\* the plain route passes no onProgress callback
SendProgress(evs, ent, stages) == IF ent = "stream" THEN evs \o stages ELSE evs

\* the outer catch: sendProgress({ stage: 'error', ... }); finally closes
\* the stream
CatchErrorSilent(evs) == evs

CatchError(evs) == Append(evs, "error")

\* the inner catch (transcriptError): the handler reports the translate
\* stage and goes on with translateAudio
CatchTranscriptErrorAborts(evs) ==
    [pc |-> "closed", events |-> Append(evs, "error")]

CatchTranscriptError(evs) ==
    [pc |-> "fallback", events |-> Append(evs, "translate")]

InitDub(segs, total, e, ent) ==
    /\ run = 1
    /\ pc = "tts"
    /\ captionSegments = << >>
    /\ currentSegment = Null
    /\ mergedSegments = << >>
    /\ translations = << >>
    /\ usedIndices = {}
    /\ result = << >>
    /\ entry = ent
    /\ chunks = << >>
    /\ loading = FALSE
    /\ pendingResult = Null
    /\ progress = Null
    /\ segments = segs
    /\ totalDuration = total
    /\ i = 1
    /\ segmentFiles = << >>
    /\ calls = << >>
    /\ files = [p \in Paths |-> NoFile]
    /\ segmentsWithPaths = << >>
    /\ sortedSegments = << >>
    /\ adjustedSegments = << >>
    /\ resolveLog = << >>
    /\ mixArgs = << >>
    /\ events = EventsBefore(ent)
    /\ env = e

InitRun(segs, total, e) == InitDub(segs, total, e, "stream")

\* the timing scenarios, with a speech provider that answers every call
InitTiming ==
    \E segs \in SeqsUpTo(UnitPool, MaxUnits) \cup {ScenarioA} :
        \E total \in TotalDurs :
            InitRun(segs, total, Env(TtsDurs, {"ok"}, BOOLEAN))

\* the failure scenarios: every unit's clip is as long as its window, and
\* a synthesis call may fail either way
InitRuns ==
    \E segs \in RunSeqs :
        InitRun(segs, Sec(6), Env({Sec(2)}, SpeechOutcomes, BOOLEAN))

Init == InitTiming \/ InitRuns

\* ------------------------------------------------- generateGeorgianAudio

Clip(r, dur, text) == [run |-> r, dur |-> dur, text |-> text]

\* the directory after generateSpeechEdge(cleanText, outputPath)
GenerateSpeechEdge(fs, outputPath, clip, outcome) ==
    IF outcome = "fail" THEN fs ELSE [fs EXCEPT ![outputPath] = clip]

\* one generateSpeechEdge call and the wait (ms) that follows it before the
\* loop goes on: 800 after a first call that succeeded, 2000 after a first
\* call that failed, none after the retry
Call(unit, attempt, ok) ==
    [unit |-> unit, attempt |-> attempt, ok |-> ok,
     delay |-> IF attempt = 1
               THEN (IF ok THEN PacingMs ELSE BackoffMs)
               ELSE 0]

\* the loop is over and generateGeorgianAudio has returned
TtsLoopDone == pc = "tts" /\ i > Len(segments)

\* if (!segment.text || segment.text.trim() === '') continue;
\* if (!cleanText) continue;
SkipUnit ==
    /\ pc = "tts"
    /\ i <= Len(segments)
    /\ IsSkipped(segments[i].text)
    /\ i' = i + 1
    /\ UNCHANGED <<run, pc, segments, totalDuration, segmentFiles, calls,
                   files, segmentsWithPaths, sortedSegments,
                   adjustedSegments, resolveLog, mixArgs, events, env>>
    /\ UNCHANGED <<transcriptVars, clientVars, entry>>

\* the try block: progress report, first call, push, pacing delay
SynthFirst ==
    /\ pc = "tts"
    /\ i <= Len(segments)
    /\ ~IsSkipped(segments[i].text)
    /\ events' = SendProgress(events, entry, <<"tts">>)
    /\ \E outcome \in env.speech, dur \in env.durs :
          LET fileName == SegmentPath(i - 1)
              clip == Clip(run, dur, CleanText(segments[i].text))
          IN  /\ files' = GenerateSpeechEdge(files, fileName, clip, outcome)
              /\ calls' = Append(calls, Call(i, 1, outcome = "ok"))
              /\ IF outcome = "ok"
                 THEN /\ segmentFiles' = Append(segmentFiles, fileName)
                      /\ i' = i + 1
                      /\ pc' = "tts"
                 ELSE /\ UNCHANGED <<segmentFiles, i>>
                      /\ pc' = "retry"
    /\ UNCHANGED <<run, segments, totalDuration, segmentsWithPaths,
                   sortedSegments, adjustedSegments, resolveLog, mixArgs,
                   env>>
    /\ UNCHANGED <<transcriptVars, clientVars, entry>>

\* the catch block: back-off, one more call, push on success, continue
SynthRetry ==
    /\ pc = "retry"
    /\ \E outcome \in env.speech, dur \in env.durs :
          LET fileName == SegmentPath(i - 1)
              clip == Clip(run, dur, CleanText(segments[i].text))
          IN  /\ files' = GenerateSpeechEdge(files, fileName, clip, outcome)
              /\ calls' = Append(calls, Call(i, 2, outcome = "ok"))
              /\ segmentFiles' = IF outcome = "ok"
                                 THEN Append(segmentFiles, fileName)
                                 ELSE segmentFiles
    /\ i' = i + 1
    /\ pc' = "tts"
    /\ UNCHANGED <<run, segments, totalDuration, segmentsWithPaths,
                   sortedSegments, adjustedSegments, resolveLog, mixArgs,
                   events, env>>
    /\ UNCHANGED <<transcriptVars, clientVars, entry>>

\* ------------------------------------------------ route: collect the clips

\* the loop building segmentsWithPaths: unit i is kept when
\* `${videoId}_segment_${i}.mp3` exists
RECURSIVE CollectExisting(_, _, _, _)
CollectExisting(segs, fs, produced, k) ==
    IF k > Len(segs) THEN << >>
    ELSE (IF Exists(fs, SegmentPath(k - 1))
          THEN <<[start |-> segs[k].start, end |-> segs[k].end,
                  text |-> segs[k].text, audioPath |-> SegmentPath(k - 1)]>>
          ELSE << >>)
         \o CollectExisting(segs, fs, produced, k + 1)

\* route.ts after generateGeorgianAudio returns: collect; with no clip,
\* throw (the catch sends the error event, finally closes the stream);
\* otherwise send the stitch event and enter stitchAudioWithTiming, which
\* reports progress and sorts
Collect ==
    /\ TtsLoopDone
    /\ LET found == CollectExisting(segments, files, segmentFiles, 1)
       IN  /\ segmentsWithPaths' = found
           /\ IF found = << >>
              THEN /\ events' = CatchError(events)
                   /\ pc' = "closed"
                   /\ UNCHANGED <<sortedSegments, i>>
              ELSE /\ events' = SendProgress(events, entry,
                                            <<"stitch", "stitch">>)
                   /\ sortedSegments' = SortByStart(found)
                   /\ i' = 1
                   /\ pc' = "resolve"
    /\ adjustedSegments' = << >>
    /\ UNCHANGED <<run, segments, totalDuration, segmentFiles, calls, files,
                   resolveLog, mixArgs, env>>
    /\ UNCHANGED <<transcriptVars, clientVars, entry>>


\* ------------------------------------- stitchAudioWithTiming: the resolver

NoTarget == Rat(0, 1)

\* one iteration of the loop over sortedSegments. ok, jit: how the
\* compressor ends when adjustAudioSpeed runs it
ResolveStep ==
    /\ pc = "resolve"
    /\ i <= Len(sortedSegments)
    /\ LET segment == sortedSegments[i]
       IN  IF ~Exists(files, segment.audioPath)
           THEN UNCHANGED <<files, adjustedSegments, resolveLog>>
           ELSE
             LET ttsDuration == files[segment.audioPath].dur
                 availableTime == AvailableTime(sortedSegments, i)
                 speedup == NeedsSpeedup(ttsDuration, availableTime)
                 target == SpeedTarget(ttsDuration, availableTime)
                 adjustedPath == IF speedup THEN AdjustedPath(segment.audioPath)
                                 ELSE segment.audioPath
             IN  \E ok \in env.tools, jit \in Jitter :
                   /\ files' = IF speedup
                               THEN AdjustAudioSpeed(files, segment.audioPath,
                                        adjustedPath, target, ok, jit)
                               ELSE files
                   /\ adjustedSegments' = Append(adjustedSegments,
                        [start |-> segment.start, end |-> segment.end,
                         text |-> segment.text,
                         audioPath |-> adjustedPath,
                         originalPath |-> segment.audioPath,
                         wasAdjusted |-> adjustedPath # segment.audioPath,
                         audioDuration |-> files'[adjustedPath].dur,
                         exactStart |-> segment.start])
                   /\ resolveLog' = Append(resolveLog,
                        [pos |-> i,
                         unit |-> segment,
                         ttsDuration |-> ttsDuration,
                         availableTime |-> availableTime,
                         called |-> speedup,
                         target |-> IF speedup THEN target ELSE NoTarget,
                         chain |-> IF speedup
                                   THEN AtempoFilters(ttsDuration, target)
                                   ELSE << >>,
                         ran |-> speedup /\ RunsCompressor(files,
                                              segment.audioPath, target),
                         ok |-> /\ speedup
                                /\ RunsCompressor(files, segment.audioPath,
                                                  target)
                                /\ ok])
    /\ i' = i + 1
    /\ UNCHANGED <<run, pc, segments, totalDuration, segmentFiles, calls,
                   segmentsWithPaths, sortedSegments, mixArgs, events,
                   env>>
    /\ UNCHANGED <<transcriptVars, clientVars, entry>>

\* ----------------------------------- stitchAudioWithTiming: the compositor

\* unlink the filter script and every adjusted clip (both the success path
\* and the catch block do this)
RECURSIVE UnlinkEvery(_, _, _)
UnlinkEvery(fs, adjusted, k) ==
    IF k > Len(adjusted) THEN fs
    ELSE UnlinkEvery([fs EXCEPT ![adjusted[k].audioPath] = NoFile],
                     adjusted, k + 1)

RECURSIVE UnlinkAdjusted(_, _, _)
UnlinkAdjusted(fs, adjusted, k) ==
    IF k > Len(adjusted) THEN fs
    ELSE UnlinkAdjusted(
            IF adjusted[k].wasAdjusted
            THEN [fs EXCEPT ![adjusted[k].audioPath] = NoFile] ELSE fs,
            adjusted, k + 1)

CleanupScriptOnly(fs, adjusted) == [fs EXCEPT ![FilterScriptPath] = NoFile]

Cleanup(fs, adjusted) ==
    UnlinkAdjusted([fs EXCEPT ![FilterScriptPath] = NoFile], adjusted, 1)

\* ffmpeg can mix only inputs that exist, and needs at least one
Mixable(fs, args) ==
    /\ Len(args.inputs) > 0
    /\ \A k \in 1..Len(args.inputs) : Exists(fs, args.inputs[k])

\* after the loop: progress report, filter script, the mix itself, cleanup.
\* On exit 0 the track is written and normalization comes next; otherwise
\* the error is rethrown to route.ts, which sends the error event.
Mix ==
    /\ pc = "resolve"
    /\ i > Len(sortedSegments)
    /\ LET args == MixArgs(adjustedSegments, totalDuration)
           scripted == [files EXCEPT ![FilterScriptPath] = [run |-> run]]
       IN  /\ mixArgs' = Append(mixArgs, args)
           /\ \E ok \in env.tools :
                IF ok /\ Mixable(files, args)
                THEN /\ files' = Cleanup(
                            [scripted EXCEPT ![FinalAudioPath] =
                                [run |-> run,
                                 dur |-> MixedDuration(files, args),
                                 normalized |-> FALSE]],
                            adjustedSegments)
                     /\ events' = SendProgress(events, entry,
                                              <<"stitch", "stitch">>)
                     /\ pc' = "normalize"
                ELSE /\ files' = Cleanup(scripted, adjustedSegments)
                     /\ events' = CatchError(
                            SendProgress(events, entry, <<"stitch">>))
                     /\ pc' = "closed"
    /\ UNCHANGED <<run, segments, totalDuration, i, segmentFiles, calls,
                   segmentsWithPaths, sortedSegments, adjustedSegments,
                   resolveLog, env>>
    /\ UNCHANGED <<transcriptVars, clientVars, entry>>

\* normalizeAudio(outputPath): on exit 0 the normalized copy replaces the
\* track; otherwise the track is kept. Then the last progress report.
NormalizeAudioUnlinksFirst(fs, audioPath, ok) ==
    IF ok THEN [fs EXCEPT ![audioPath].normalized = TRUE]
    ELSE [fs EXCEPT ![audioPath] = NoFile]

NormalizeAudio(fs, audioPath, ok) ==
    IF ok THEN [fs EXCEPT ![audioPath].normalized = TRUE] ELSE fs

Normalize ==
    /\ pc = "normalize"
    /\ \E ok \in env.tools : files' = NormalizeAudio(files, FinalAudioPath, ok)
    /\ events' = SendProgress(events, entry, <<"stitch">>)
    /\ pc' = "meta"
    /\ UNCHANGED <<run, segments, totalDuration, i, segmentFiles, calls,
                   segmentsWithPaths, sortedSegments, adjustedSegments,
                   resolveLog, mixArgs, env>>
    /\ UNCHANGED <<transcriptVars, clientVars, entry>>

\* after stitchAudioWithTiming returns. The streaming route writes the
\* sidecar, sends the done event and closes the stream; the plain route
\* answers success: true
Finish ==
    /\ pc = "meta"
    /\ files' = IF entry = "stream"
                THEN [files EXCEPT ![MetadataFile] =
                        [run |-> run, duration |-> totalDuration]]
                ELSE files
    /\ events' = Append(events, "done")
    /\ pc' = "closed"
    /\ UNCHANGED <<run, segments, totalDuration, i, segmentFiles, calls,
                   segmentsWithPaths, sortedSegments, adjustedSegments,
                   resolveLog, mixArgs, env>>
    /\ UNCHANGED <<transcriptVars, clientVars, entry>>

\* a later request for the same video: the handler starts over on the
\* directory the earlier runs left behind
NewRun ==
    /\ pc = "closed"
    /\ run < MaxRuns
    /\ run' = run + 1
    /\ \E segs \in RunSeqs : segments' = segs
    /\ pc' = "tts"
    /\ i' = 1
    /\ segmentFiles' = << >>
    /\ calls' = << >>
    /\ segmentsWithPaths' = << >>
    /\ sortedSegments' = << >>
    /\ adjustedSegments' = << >>
    /\ resolveLog' = << >>
    /\ mixArgs' = << >>
    /\ events' = EventsBefore(entry)
    /\ UNCHANGED <<totalDuration, files, env>>
    /\ UNCHANGED <<transcriptVars, clientVars, entry>>

\* ------------------------------------- route: transcript and translation

\* the texts of caption fragments and of translations: the k-th fragment
\* reads Letters[k], the k-th element of the model's answer reads Upper[k]
Letters == <<"a", "b", "c", "d", "e">>
Upper == <<"A", "B", "C", "D", "E">>

\* the windows of caption events: two that nearly touch, one exactly 0.3 s
\* after the first, one that ends exactly 10 s after the first starts, an
\* event without dDurationMs, one longer than 10 s, one that starts inside
\* the first
FragWindows ==
    { <<0, Sec(2)>>, <<Ms(2200), Sec(4)>>, <<Ms(2300), Sec(4)>>,
      <<Sec(4), Sec(10)>>, <<Sec(5), Sec(5)>>, <<0, Sec(12)>>,
      <<Sec(1), Sec(3)>> }

\* segments.push({ start: startMs / 1000, end: (startMs + durationMs) / 1000,
\*                 text })
CaptionSeqs ==
    UNION { { [k \in 1..n |-> Unit(w[k][1], w[k][2], <<Letters[k]>>)] :
                w \in [1..n -> FragWindows] } : n \in 0..MaxFrags }

\* n captions of 2 s, 3 s apart: none merges with the one before
SpacedSeqs ==
    { [k \in 1..n |-> Unit(Sec(3 * (k - 1)), Sec(3 * (k - 1) + 2),
                           <<Letters[k]>>)] : n \in 1..MaxFrags }

\* what the translation model answers for n units: every index once and in
\* order ("each"), that or a single element with any index ("one"), or up
\* to MaxTrans elements whose index is missing, -1, or anything from 0 to
\* n ("any")
Answers(kind, n) ==
    IF kind = "each"
    THEN { [k \in 1..n |-> Trans(<<k - 1>>, <<Upper[k]>>)] }
    ELSE IF kind = "one"
    THEN { [k \in 1..n |-> Trans(<<k - 1>>, <<Upper[k]>>)] }
         \cup { <<Trans(ix, <<Upper[1]>>)>> :
                   ix \in {Undefined} \cup { <<j>> : j \in (-1)..n } }
    ELSE UNION { { [k \in 1..m |-> Trans(ix[k], <<Upper[k]>>)] :
                     ix \in [1..m -> {Undefined}
                                       \cup { <<j>> : j \in (-1)..n }] } :
                 m \in 0..MaxTrans }

\* route.ts has reported the download stage and called getYouTubeTranscript,
\* which has parsed the subtitle file
InitTranscript(captions, answers) ==
    /\ run = 1
    /\ pc = "merge"
    /\ segments = << >>
    /\ totalDuration = Sec(6)
    /\ i = 1
    /\ segmentFiles = << >>
    /\ calls = << >>
    /\ files = [p \in Paths |-> NoFile]
    /\ segmentsWithPaths = << >>
    /\ sortedSegments = << >>
    /\ adjustedSegments = << >>
    /\ resolveLog = << >>
    /\ mixArgs = << >>
    /\ events = <<"download", "download">>
    /\ env = [answers |-> answers]
    /\ captionSegments = captions
    /\ currentSegment = Null
    /\ mergedSegments = << >>
    /\ translations = << >>
    /\ usedIndices = {}
    /\ result = << >>
    /\ entry = "stream"
    /\ chunks = << >>
    /\ loading = FALSE
    /\ pendingResult = Null
    /\ progress = Null

\* any captions, with a translation model that answers every index
InitMerge == \E captions \in CaptionSeqs : InitTranscript(captions, "each")

\* well separated captions, with a translation model that answers anything
InitMap == \E captions \in SpacedSeqs : InitTranscript(captions, "any")

InitStages == InitMerge \/ InitMap

\* one iteration of `for (const seg of segments)`
MergeStep ==
    /\ pc = "merge"
    /\ i <= Len(captionSegments)
    /\ LET seg == captionSegments[i]
       IN  IF currentSegment = Null
           THEN /\ currentSegment' = seg
                /\ UNCHANGED mergedSegments
           ELSE IF Merges(currentSegment, seg)
           THEN /\ currentSegment' = MergeInto(currentSegment, seg)
                /\ UNCHANGED mergedSegments
           ELSE /\ mergedSegments' = Append(mergedSegments, currentSegment)
                /\ currentSegment' = seg
    /\ i' = i + 1
    /\ UNCHANGED <<run, pc, segments, totalDuration, events, env,
                   captionSegments, translations, usedIndices, result>>
    /\ UNCHANGED <<dubVars, clientVars, entry>>

\* the loop is over: the last unit is pushed and the transcript returned;
\* route.ts reports it and the translate stage, and translateTranscript
\* receives and parses the model's answer
MergeDone ==
    /\ pc = "merge"
    /\ i > Len(captionSegments)
    /\ mergedSegments' = PushCurrent(mergedSegments, currentSegment)
    /\ events' = events \o <<"download", "translate">>
    /\ \E answer \in Answers(env.answers, Len(mergedSegments')) :
          translations' = answer
    /\ usedIndices' = {}
    /\ result' = << >>
    /\ i' = 1
    /\ pc' = "map"
    /\ UNCHANGED <<run, segments, totalDuration, env, captionSegments,
                   currentSegment>>
    /\ UNCHANGED <<dubVars, clientVars, entry>>

\* one iteration of `for (const trans of translations)`. An accepted index
\* with no element behind it throws at segments[originalIndex].start, after
\* usedIndices.add; translateTranscript rethrows and route.ts falls back to
\* the audio path, reporting the translate stage
MapStep ==
    /\ pc = "map"
    /\ i <= Len(translations)
    /\ LET trans == translations[i]
           originalIndex == trans.index
       IN  IF ~Accepts(originalIndex, mergedSegments, usedIndices)
           THEN /\ i' = i + 1
                /\ UNCHANGED <<usedIndices, result, pc, events>>
           ELSE /\ usedIndices' = usedIndices \cup {originalIndex[1]}
                /\ IF HasElement(originalIndex, mergedSegments)
                   THEN /\ result' = Append(result,
                              Unit(mergedSegments[originalIndex[1] + 1].start,
                                   mergedSegments[originalIndex[1] + 1].end,
                                   trans.text))
                        /\ i' = i + 1
                        /\ UNCHANGED <<pc, events>>
                   ELSE /\ pc' = CatchTranscriptError(events).pc
                        /\ events' = CatchTranscriptError(events).events
                        /\ UNCHANGED <<result, i>>
    /\ UNCHANGED <<run, segments, totalDuration, env, captionSegments,
                   currentSegment, mergedSegments, translations>>
    /\ UNCHANGED <<dubVars, clientVars, entry>>

\* the loop is over: the result is sorted and returned; route.ts reports
\* the translated count and goes on to stage 3
MapDone ==
    /\ pc = "map"
    /\ i > Len(translations)
    /\ result' = SortResult(result)
    /\ segments' = result'
    /\ events' = Append(events, "translate")
    /\ i' = 1
    /\ pc' = "tts"
    /\ UNCHANGED <<run, totalDuration, env, captionSegments, currentSegment,
                   mergedSegments, translations, usedIndices>>
    /\ UNCHANGED <<dubVars, clientVars, entry>>

\* translateAudio(audioPath) returns the units the model transcribed from
\* the audio, and route.ts reports their count and goes on to stage 3; or
\* it throws (the request or JSON.parse fails) and the outer catch ends
\* the run
Fallback ==
    /\ pc = "fallback"
    /\ \/ /\ \E segs \in RunSeqs : segments' = segs
          /\ events' = Append(events, "translate")
          /\ pc' = "tts"
       \/ /\ events' = CatchError(events)
          /\ pc' = "closed"
          /\ UNCHANGED segments
    /\ i' = 1
    /\ UNCHANGED <<run, totalDuration, env>>
    /\ UNCHANGED <<transcriptVars, dubVars, clientVars, entry>>

\* GET /api/history: the tracks it lists, every *_georgian.mp3 of the
\* output directory
HistoryGET(fs) == { p \in {FinalAudioPath} : Exists(fs, p) }

Next ==
    \/ SkipUnit
    \/ SynthFirst
    \/ SynthRetry
    \/ Collect
    \/ ResolveStep
    \/ Mix
    \/ Normalize
    \/ Finish

NextRuns ==
    \/ Next
    \/ NewRun

Spec == Init /\ [][Next]_vars

SpecRuns == InitRuns /\ [][NextRuns]_vars

\* ------------------------------------ other handlers on the same directory

\* DELETE /api/history/[videoId], served while a run for the video is
\* between two of its steps: one synchronous loop unlinks every file of
\* TEMP_DIR whose name starts with the video id
Delete ==
    /\ pc # "closed"
    /\ \E p \in Paths : Exists(files, p)
    /\ files' = [p \in Paths |-> NoFile]
    /\ UNCHANGED <<run, pc, segments, totalDuration, i, segmentFiles, calls,
                   segmentsWithPaths, sortedSegments, adjustedSegments,
                   resolveLog, mixArgs, events, env>>
    /\ UNCHANGED <<transcriptVars, clientVars, entry>>

\* the request id of a second POST for the same video that is served while
\* this run is between two of its steps
OtherRun == 0

\* the second request's generateGeorgianAudio reaches its unit k and
\* generateSpeechEdge writes `${videoId}_segment_${k}.mp3`, the name this
\* run uses for its own unit k
OtherSynth ==
    /\ pc \in {"tts", "retry", "resolve"}
    /\ \E k \in 0..(MaxUnits - 1), dur \in env.durs :
          /\ files[SegmentPath(k)] # Clip(OtherRun, dur, <<"b">>)
          /\ files' = GenerateSpeechEdge(files, SegmentPath(k),
                                         Clip(OtherRun, dur, <<"b">>), "ok")
    /\ UNCHANGED <<run, pc, segments, totalDuration, i, segmentFiles, calls,
                   segmentsWithPaths, sortedSegments, adjustedSegments,
                   resolveLog, mixArgs, events, env>>
    /\ UNCHANGED <<transcriptVars, clientVars, entry>>

NextShared ==
    \/ Next
    \/ Delete
    \/ OtherSynth

SpecShared == InitRuns /\ [][NextShared]_vars

\* ---------------------------------------------- adjustAudioSpeed alone

\* the measured durations of the input clip: a few ticks, so that factors
\* up to MaxClipTicks occur, and the lengths right at and right above one
\* and two times a 3 s target
ChainDurs ==
    (0..MaxClipTicks)
    \cup { Sec(3), Sec(3) + 1, 2 * Sec(3), 2 * Sec(3) + 1 }

\* the targetDuration arguments: whole ticks, a third of a short input
\* (the capped branch), 3 s, and the negative window of a unit that ends
\* before it starts
ChainTargets(actualDuration) ==
    { Rat(t, 1) : t \in 1..MaxTargetTicks }
    \cup { Rat(Sec(3), 1), Rat(0 - Sec(1), 1) }
    \cup (IF actualDuration \in 1..MaxClipTicks
          THEN { Rat(actualDuration, MaxSpeedup) } ELSE {})

\* a clip of some measured duration is on disk
InitChain ==
    /\ \E dur \in ChainDurs :
          files = [p \in Paths |->
                     IF p = SegmentPath(0) THEN Clip(1, dur, <<"a">>)
                     ELSE NoFile]
    /\ run = 1
    /\ pc = "adjust"
    /\ captionSegments = << >>
    /\ currentSegment = Null
    /\ mergedSegments = << >>
    /\ translations = << >>
    /\ usedIndices = {}
    /\ result = << >>
    /\ entry = "stream"
    /\ chunks = << >>
    /\ loading = FALSE
    /\ pendingResult = Null
    /\ progress = Null
    /\ segments = << >>
    /\ totalDuration = Sec(6)
    /\ i = 1
    /\ segmentFiles = << >>
    /\ calls = << >>
    /\ segmentsWithPaths = << >>
    /\ sortedSegments = << >>
    /\ adjustedSegments = << >>
    /\ resolveLog = << >>
    /\ mixArgs = << >>
    /\ events = << >>
    /\ env = Env({Sec(2)}, {"ok"}, BOOLEAN)

\* one call adjustAudioSpeed(inputPath, outputPath, targetDuration)
AdjustCall ==
    /\ pc = "adjust"
    /\ LET inputPath == SegmentPath(0)
           outputPath == AdjustedPath(inputPath)
           actualDuration == files[inputPath].dur
       IN  \E target \in ChainTargets(actualDuration),
              ok \in env.tools, jit \in Jitter :
             /\ files' = AdjustAudioSpeed(files, inputPath, outputPath,
                                          target, ok, jit)
             /\ resolveLog' = Append(resolveLog,
                    [pos |-> 1,
                     ttsDuration |-> actualDuration,
                     called |-> TRUE,
                     target |-> target,
                     chain |-> AtempoFilters(actualDuration, target),
                     ran |-> RunsCompressor(files, inputPath, target),
                     ok |-> RunsCompressor(files, inputPath, target) /\ ok])
    /\ pc' = "adjusted"
    /\ UNCHANGED <<run, segments, totalDuration, i, segmentFiles, calls,
                   segmentsWithPaths, sortedSegments, adjustedSegments,
                   mixArgs, events, env>>
    /\ UNCHANGED <<transcriptVars, clientVars, entry>>

SpecChain == InitChain /\ [][AdjustCall]_vars

\* ------------------------------------------------- the two entry points

\* a request to /api/translate-stream or to the plain POST route, with the
\* units the translation returned
InitEntry ==
    \E segs \in RunSeqs, ent \in {"stream", "plain"} :
        InitDub(segs, Sec(6), Env({Sec(2)}, SpeechOutcomes, BOOLEAN), ent)

SpecEntry == InitEntry /\ [][Next]_vars

NextTranscript ==
    \/ MergeStep
    \/ MergeDone
    \/ MapStep
    \/ MapDone
    \/ Fallback

SpecTranscript == InitStages /\ [][NextTranscript]_vars

\* ------------------------------------------- the streaming route, whole

\* the captions of the video, when it has any: one or two fragments
StreamCaptions == { c \in SpacedSeqs : Len(c) <= MaxUnits }

\* start(controller) has been called
InitStream ==
    /\ run = 1
    /\ pc = "start"
    /\ segments = << >>
    /\ totalDuration = Sec(6)
    /\ i = 1
    /\ segmentFiles = << >>
    /\ calls = << >>
    /\ files = [p \in Paths |-> NoFile]
    /\ segmentsWithPaths = << >>
    /\ sortedSegments = << >>
    /\ adjustedSegments = << >>
    /\ resolveLog = << >>
    /\ mixArgs = << >>
    /\ events = << >>
    /\ env = [durs |-> {Sec(2)}, speech |-> SpeechOutcomes,
              tools |-> BOOLEAN, answers |-> "one"]
    /\ captionSegments = << >>
    /\ currentSegment = Null
    /\ mergedSegments = << >>
    /\ translations = << >>
    /\ usedIndices = {}
    /\ result = << >>
    /\ entry = "stream"
    /\ chunks = << >>
    /\ loading = FALSE
    /\ pendingResult = Null
    /\ progress = Null

\* stage 1: the download report, getVideoMetadata and downloadYouTubeAudio
\* (either may throw, which ends the run in the outer catch), then the
\* report that opens the inner try
Download ==
    /\ pc = "start"
    /\ \E ok \in env.tools :
          IF ok
          THEN /\ events' = events \o <<"download", "download">>
               /\ pc' = "captions"
          ELSE /\ events' = CatchError(Append(events, "download"))
               /\ pc' = "closed"
    /\ UNCHANGED <<run, segments, totalDuration, i, env>>
    /\ UNCHANGED <<transcriptVars, dubVars, clientVars, entry>>

\* getYouTubeTranscript as far as its merge loop: yt-dlp fails or leaves no
\* subtitle file ('No subtitles found for this video'), which the inner
\* catch of route.ts takes; or the events of the subtitle file are parsed
FetchCaptions ==
    /\ pc = "captions"
    /\ \/ /\ pc' = CatchTranscriptError(events).pc
          /\ events' = CatchTranscriptError(events).events
          /\ UNCHANGED captionSegments
       \/ /\ \E captions \in StreamCaptions : captionSegments' = captions
          /\ pc' = "merge"
          /\ UNCHANGED events
    /\ i' = 1
    /\ UNCHANGED <<run, segments, totalDuration, env, currentSegment,
                   mergedSegments, translations, usedIndices, result>>
    /\ UNCHANGED <<dubVars, clientVars, entry>>

NextStream ==
    \/ Download
    \/ FetchCaptions
    \/ NextTranscript
    \/ Next

SpecStream == InitStream /\ [][NextStream]_vars

\* every awaited call of the handler settles
FairStream == SpecStream /\ WF_vars(NextStream)


\* ------------------------------------------------ the page: handleTranslate

\* the bytes of the stream in pieces that a read may cut apart: the prefix
\* 'data: ' in two pieces, the JSON text in three, the line feed
DataPrefix == <<"da", "ta: ">>

\* encoder.encode(`data: ${JSON.stringify(data)}\n\n`)
Encode(stage) == DataPrefix \o <<"{", stage, "}">> \o <<"\n", "\n">>

RECURSIVE EncodeAll(_)
EncodeAll(evs) ==
    IF evs = << >> THEN << >> ELSE Encode(Head(evs)) \o EncodeAll(Tail(evs))

\* what the route sends in a run that fails in the download and in a run
\* of one unit that succeeds
ClientStreams ==
    { <<"download", "error">>,
      EventsBeforeTts \o <<"tts", "stitch", "stitch", "stitch", "stitch",
                           "done">> }

\* where the reads cut a stream of n pieces: up to MaxChunks - 1 places,
\* increasing, none at either end
Cuts(n) ==
    UNION { { c \in [1..k -> 1..(n - 1)] :
                \A j \in 1..(k - 1) : c[j] < c[j + 1] } :
            k \in 0..(MaxChunks - 1) }

\* the values that reader.read() returns for the stream cut at c
ChunksOf(bytes, c) ==
    [j \in 1..(Len(c) + 1) |->
        SubSeq(bytes,
               IF j = 1 THEN 1 ELSE c[j - 1] + 1,
               IF j = Len(c) + 1 THEN Len(bytes) ELSE c[j])]

\* chunk.split('\n')
RECURSIVE Split(_, _)
Split(chunk, line) ==
    IF chunk = << >> THEN <<line>>
    ELSE IF Head(chunk) = "\n"
    THEN <<line>> \o Split(Tail(chunk), << >>)
    ELSE Split(Tail(chunk), Append(line, Head(chunk)))

\* line.startsWith('data: ')
StartsWithData(line) ==
    Len(line) >= Len(DataPrefix)
    /\ SubSeq(line, 1, Len(DataPrefix)) = DataPrefix

\* JSON.parse(line.slice(6)) returns an object instead of throwing
Parses(line) ==
    LET text == SubSeq(line, Len(DataPrefix) + 1, Len(line))
    IN  Len(text) = 3 /\ text[1] = "{" /\ text[3] = "}"

\* the page's state after one line: pendingResult and progress
HandleLine(st, line) ==
    IF ~(StartsWithData(line) /\ Parses(line)) THEN st
    ELSE LET stage == line[Len(DataPrefix) + 2]
         IN  IF stage = "done"
             THEN [pendingResult |-> [stage |-> "done"], progress |-> Null]
             ELSE IF stage = "error"
             THEN [st EXCEPT !.progress = [stage |-> "error",
                                           message |-> "data.error"]]
             ELSE [st EXCEPT !.progress = [stage |-> stage]]

\* for (const line of lines)
RECURSIVE HandleLines(_, _)
HandleLines(st, lines) ==
    IF lines = << >> THEN st
    ELSE HandleLines(HandleLine(st, Head(lines)), Tail(lines))

\* the message of the page's own catch block
ClientError == [stage |-> "error", message |-> "catch"]

\* handleTranslate has set loading, cleared progress and pendingResult,
\* and holds the reader of a response whose stream the server has written
InitClient ==
    /\ \E sent \in ClientStreams :
          /\ events = sent
          /\ \E c \in Cuts(Len(EncodeAll(sent))) :
                chunks = ChunksOf(EncodeAll(sent), c)
    /\ loading = TRUE
    /\ pendingResult = Null
    /\ progress = Null
    /\ pc = "reading"
    /\ run = 1
    /\ entry = "stream"
    /\ captionSegments = << >>
    /\ currentSegment = Null
    /\ mergedSegments = << >>
    /\ translations = << >>
    /\ usedIndices = {}
    /\ result = << >>
    /\ segments = << >>
    /\ totalDuration = Sec(6)
    /\ i = 1
    /\ segmentFiles = << >>
    /\ calls = << >>
    /\ files = [p \in Paths |-> NoFile]
    /\ segmentsWithPaths = << >>
    /\ sortedSegments = << >>
    /\ adjustedSegments = << >>
    /\ resolveLog = << >>
    /\ mixArgs = << >>
    /\ env = Env({Sec(2)}, {"ok"}, BOOLEAN)

\* reader.read() returns a value: decode, split, handle every line
ReadChunk ==
    /\ pc = "reading"
    /\ chunks # << >>
    /\ LET st == HandleLines([pendingResult |-> pendingResult,
                              progress |-> progress],
                             Split(Head(chunks), << >>))
       IN  /\ pendingResult' = st.pendingResult
           /\ progress' = st.progress
    /\ chunks' = Tail(chunks)
    /\ UNCHANGED <<run, pc, segments, totalDuration, i, events, env, entry,
                   loading>>
    /\ UNCHANGED <<transcriptVars, dubVars>>

\* reader.read() returns done: break, finally
StreamEnd ==
    /\ pc = "reading"
    /\ chunks = << >>
    /\ loading' = FALSE
    /\ pc' = "ended"
    /\ UNCHANGED <<run, segments, totalDuration, i, events, env, entry,
                   chunks, pendingResult, progress>>
    /\ UNCHANGED <<transcriptVars, dubVars>>

\* reader.read() rejects (the connection drops): catch, finally
ReadThrows ==
    /\ pc = "reading"
    /\ progress' = ClientError
    /\ loading' = FALSE
    /\ pc' = "ended"
    /\ UNCHANGED <<run, segments, totalDuration, i, events, env, entry,
                   chunks, pendingResult>>
    /\ UNCHANGED <<transcriptVars, dubVars>>

NextClient ==
    \/ ReadChunk
    \/ StreamEnd
    \/ ReadThrows

SpecClient == InitClient /\ [][NextClient]_vars

\* ----------------------------------------------------------------- claims

\* the k-th smallest start among the units of S, counted with repetition
KthStart(S, k) ==
    CHOOSE v \in { S[j].start : j \in 1..Len(S) } :
        /\ Cardinality({ j \in 1..Len(S) : S[j].start < v }) < k
        /\ Cardinality({ j \in 1..Len(S) : S[j].start <= v }) >= k

\* the stitch run is past its resolver loop
Resolved == pc \in {"normalize", "meta", "closed"} /\ mixArgs # << >>

\* the tolerance of a probed duration: the compressor's measurement error
\* and the four-decimal rounding of the last atempo stage
Tol == Ms(ProbeJitter) + TicksPerMs

\* C1: the units are resolved in ascending start order whatever the order
\* they were passed in, and the available time of the unit at position p is
\* its own window when it is last, and otherwise
\* max(min(window, next start - start), 0.5 s), next being position p + 1.
C1_AvailableTime ==
    /\ \A n \in 1..Len(resolveLog) :
          LET e == resolveLog[n]
              S == segmentsWithPaths
              window == e.unit.end - e.unit.start
          IN  /\ e.pos = n
              /\ \E j \in 1..Len(S) : S[j] = e.unit
              /\ e.unit.start = KthStart(S, n)
              /\ e.availableTime =
                    IF n = Len(S) THEN window
                    ELSE Max(Min(window, KthStart(S, n + 1) - e.unit.start),
                             Ms(FloorMs))
    /\ Resolved => Len(resolveLog) = Len(segmentsWithPaths)

\* C1 witness: two units passed latest first; the earlier one is resolved
\* first and is limited by the start of the other
C1_Witness ==
    /\ Len(resolveLog) = 2
    /\ segmentsWithPaths[1].start > segmentsWithPaths[2].start
    /\ resolveLog[1].unit = segmentsWithPaths[2]
    /\ resolveLog[1].availableTime =
          segmentsWithPaths[1].start - segmentsWithPaths[2].start
    /\ resolveLog[1].availableTime > Ms(FloorMs)
    /\ resolveLog[1].availableTime
          < segmentsWithPaths[2].end - segmentsWithPaths[2].start

\* C2: a unit whose measured duration is at most its available time keeps
\* its clip: same path, measured duration, not adjusted, no compression.
C2_NoAdjustment ==
    \A n \in 1..Len(resolveLog) :
        LET e == resolveLog[n]
            a == adjustedSegments[n]
        IN  e.ttsDuration <= e.availableTime =>
              /\ a.audioDuration = e.ttsDuration
              /\ a.wasAdjusted = FALSE
              /\ a.audioPath = e.unit.audioPath
              /\ a.audioPath = SegmentPath(a.audioPath.idx)
              /\ ~e.called
              /\ ~e.ran
              /\ ~Exists(files, AdjustedPath(e.unit.audioPath))

\* C2 witness: after a unit that was compressed, a clip shorter than its
\* available time is kept as it is
C2_Witness ==
    /\ Len(resolveLog) = 2
    /\ adjustedSegments[1].wasAdjusted
    /\ resolveLog[2].ttsDuration < resolveLog[2].availableTime
    /\ ~adjustedSegments[2].wasAdjusted
    /\ adjustedSegments[2].audioDuration = resolveLog[2].ttsDuration

\* the unit needs compression and the required factor is within the ceiling
WithinCeiling(e) ==
    /\ e.availableTime > 0
    /\ e.ttsDuration > e.availableTime
    /\ e.ttsDuration <= MaxSpeedup * e.availableTime

\* the unit needs compression by more than the ceiling
BeyondCeiling(e) ==
    /\ e.ttsDuration > e.availableTime
    /\ \/ e.availableTime = 0
       \/ e.availableTime > 0 /\ e.ttsDuration > MaxSpeedup * e.availableTime

\* C3 as stated: a unit that needs compression within the ceiling gets an
\* effective duration of at most its available time, within tolerance.
C3_FitsAvailable ==
    \A n \in 1..Len(resolveLog) :
        WithinCeiling(resolveLog[n]) =>
            adjustedSegments[n].audioDuration
                <= resolveLog[n].availableTime + Tol

\* C3 amended: ... when the compressor exits 0; when it fails the recorded
\* effective duration is the measured duration of the unadjusted clip.
C3_FitsAvailableWhenCompressed ==
    \A n \in 1..Len(resolveLog) :
        LET e == resolveLog[n]
            a == adjustedSegments[n]
        IN  WithinCeiling(e) =>
              /\ e.ran
              /\ e.ok => a.audioDuration <= e.availableTime + Tol
              /\ ~e.ok => a.audioDuration = e.ttsDuration

\* C3 witness: a clip compressed in two stages (factor above 2, within 3)
\* that fits, and the same need with the compressor failing
C3_Witness ==
    \E n \in 1..Len(resolveLog) :
        /\ WithinCeiling(resolveLog[n])
        /\ resolveLog[n].ok
        /\ Len(resolveLog[n].chain) = 2
        /\ adjustedSegments[n].audioDuration > resolveLog[n].availableTime
        /\ adjustedSegments[n].audioDuration
              <= resolveLog[n].availableTime + Tol

\* C4: a unit that needs more than the ceiling is compressed by exactly 3.0
\* (target measuredDuration / 3, stages multiplying to 3), is marked
\* adjusted, and is not forced into its smaller window; compressed, the
\* clip measures about measuredDuration / 3.
C4_CappedAtCeiling ==
    \A n \in 1..Len(resolveLog) :
        LET e == resolveLog[n]
            a == adjustedSegments[n]
        IN  BeyondCeiling(e) =>
              /\ e.called /\ e.ran
              /\ MaxSpeedup * e.target.num = e.ttsDuration * e.target.den
              /\ e.target.num > e.availableTime * e.target.den
              /\ Len(e.chain) = 2
              /\ e.chain[1] * e.chain[2] = MaxSpeedup * FixedScale * FixedScale
              /\ \A k \in 1..Len(e.chain) :
                    e.chain[k] > FixedScale /\ e.chain[k] <= AtempoMax * FixedScale
              /\ a.wasAdjusted
              /\ a.audioPath # a.originalPath
              /\ e.ok => /\ MaxSpeedup * a.audioDuration >= e.ttsDuration
                         /\ MaxSpeedup * a.audioDuration
                               <= e.ttsDuration + MaxSpeedup * Tol

\* C4 witness: scenario B, a 4 s clip with 1.0 s available (the next unit
\* starts at 1.2 s) ends at about 1.33 s
C4_Witness ==
    /\ Len(resolveLog) = 2
    /\ resolveLog[1].unit.start = 0
    /\ resolveLog[1].unit.end = Sec(1)
    /\ resolveLog[2].unit.start = Ms(1200)
    /\ resolveLog[1].ttsDuration = Sec(4)
    /\ resolveLog[1].availableTime = Sec(1)
    /\ resolveLog[1].ok
    /\ adjustedSegments[1].wasAdjusted
    /\ adjustedSegments[1].audioDuration >= Ms(1333)
    /\ adjustedSegments[1].audioDuration <= Ms(1334)


\* C5: every clip handed to the mixer is delayed by floor(start * 1000) ms,
\* start being the start of the unit as the caller gave it: the delay is a
\* function of that start alone, whatever the durations and adjustments.
C5_ExactAnchor ==
    \A m \in 1..Len(mixArgs) :
        /\ Len(mixArgs[m].inputs) = Len(adjustedSegments)
        /\ \A k \in 1..Len(mixArgs[m].inputs) :
              LET unit == segments[mixArgs[m].inputs[k].idx + 1]
                  delay == mixArgs[m].delays[k]
              IN  /\ Ms(delay) <= unit.start
                  /\ unit.start < Ms(delay + 1)
                  /\ adjustedSegments[k].exactStart = unit.start
                  /\ adjustedSegments[k].originalPath
                        = SegmentPath(mixArgs[m].inputs[k].idx)

\* C5 witness: a unit starting at 1200.5 ms is delayed by 1200 ms although
\* the unit before it overruns into it (capped clip) and it is itself
\* compressed
C5_Witness ==
    /\ Len(mixArgs) = 1
    /\ Len(adjustedSegments) = 2
    /\ adjustedSegments[1].wasAdjusted
    /\ adjustedSegments[1].exactStart + adjustedSegments[1].audioDuration
          > adjustedSegments[2].exactStart
    /\ adjustedSegments[2].wasAdjusted
    /\ adjustedSegments[2].exactStart = Ms(1200) + HalfMs
    /\ HalfMs > 0
    /\ mixArgs[1].delays[2] = 1200

\* C6: the track never lasts longer than the video.
C6_WithinTotalDuration ==
    Exists(files, FinalAudioPath) =>
        files[FinalAudioPath].dur <= totalDuration

\* C6 witness: a clip placed so that it ends after the end of the video is
\* cut off: the track lasts exactly as long as the video
C6_Witness ==
    /\ Exists(files, FinalAudioPath)
    /\ \E k \in 1..Len(adjustedSegments) :
          adjustedSegments[k].exactStart + adjustedSegments[k].audioDuration
              > totalDuration
    /\ files[FinalAudioPath].dur = totalDuration

\* the run reported success
Succeeded == pc = "closed" /\ events[Len(events)] = "done"

\* when the last clip ends on the timeline, from the resolver's records
LastClipEnd ==
    MaxOver([k \in 1..Len(adjustedSegments) |->
                Ms(adjustedSegments[k].exactStart \div TicksPerMs)
                    + adjustedSegments[k].audioDuration],
            Len(adjustedSegments))

\* C7 as stated: after a successful composite the track lasts exactly as
\* long as the video.
C7_EqualsTotalDuration ==
    Succeeded => files[FinalAudioPath].dur = totalDuration

\* C7 amended: after a successful composite the track lasts until the last
\* clip ends, or as long as the video when that is earlier; scenario A with
\* all three units synthesized to clips as long as their windows and a 6 s
\* video has no adjusted unit and a 6 s track.
C7_LastClipOrTotalDuration ==
    /\ Succeeded =>
          files[FinalAudioPath].dur = Min(totalDuration, LastClipEnd)
    /\ ( /\ Succeeded
         /\ segments = ScenarioA
         /\ totalDuration = Sec(6)
         /\ Len(resolveLog) = 3
         /\ \A n \in 1..Len(resolveLog) :
               resolveLog[n].ttsDuration
                   = resolveLog[n].unit.end - resolveLog[n].unit.start )
       => /\ Len(adjustedSegments) = 3
          /\ \A k \in 1..3 : ~adjustedSegments[k].wasAdjusted
          /\ files[FinalAudioPath].dur = Sec(6)

\* C7 witness: scenario A ends with a 6 s track
C7_Witness ==
    /\ Succeeded
    /\ segments = ScenarioA
    /\ totalDuration = Sec(6)
    /\ \A n \in 1..Len(resolveLog) : resolveLog[n].ttsDuration = Sec(2)
    /\ Len(adjustedSegments) = 3
    /\ files[FinalAudioPath].dur = Sec(6)


\* the calls made for unit u (1-based) in this run, in order
CallsFor(u) == SelectSeq(calls, LAMBDA c : c.unit = u)

\* the clips were collected: the run is past the loop of route.ts that
\* builds segmentsWithPaths
Collected == pc \in {"resolve", "normalize", "meta", "closed"}

\* a clip for unit u (1-based) is among those handed to the compositor
Composited(u) ==
    \E k \in 1..Len(segmentsWithPaths) :
        segmentsWithPaths[k].audioPath = SegmentPath(u - 1)

\* C8: a failed synthesis is retried exactly once (at most two calls per
\* unit, the second only after a failed first); when the retry fails too,
\* no clip for that unit reaches the compositor and the run goes on with
\* the next unit.
C8_RetryOnceThenDrop ==
    \A u \in 1..Len(segments) :
        LET cs == CallsFor(u)
        IN  /\ Len(cs) <= 2
            /\ Len(cs) >= 1 => cs[1].attempt = 1
            /\ Len(cs) = 2 => ~cs[1].ok /\ cs[2].attempt = 2
            /\ (Len(cs) = 1 /\ ~cs[1].ok) => (pc = "retry" /\ i = u)
            /\ (Len(cs) = 2 /\ ~cs[2].ok) =>
                  /\ pc \in {"tts", "retry"} => i > u
                  /\ Collected => ~Composited(u)

\* C9: a unit without speakable text (empty, blank, or only bracket
\* annotations) gets no synthesis call and no clip file, and no clip for it
\* is composited.
C9_SkippedUnitHasNoClip ==
    \A u \in 1..Len(segments) :
        IsSkipped(segments[u].text) =>
            /\ CallsFor(u) = << >>
            /\ Exists(files, SegmentPath(u - 1)) =>
                  files[SegmentPath(u - 1)].run # run
            /\ Collected => ~Composited(u)

\* C10: when no clip survives synthesis, the run ends with the error event
\* before any mix is run, and writes neither a track nor a sidecar.
C10_NoClipAborts ==
    (Collected /\ segmentFiles = << >>) =>
        /\ pc = "closed"
        /\ events[Len(events)] = "error"
        /\ mixArgs = << >>
        /\ Exists(files, FinalAudioPath) => files[FinalAudioPath].run # run
        /\ Exists(files, MetadataFile) => files[MetadataFile].run # run

\* the transcript path has reached stage 3: translateTranscript returned
Mapped == pc = "tts" /\ events = EventsBeforeTts

\* the input indices (0-based) the model's answer translates
Translated ==
    { x \in 0..(Len(mergedSegments) - 1) :
        \E j \in 1..Len(translations) : translations[j].index = <<x>> }

\* where index x first occurs in the model's answer
FirstOccurrence(x) ==
    CHOOSE j \in 1..Len(translations) :
        /\ translations[j].index = <<x>>
        /\ \A h \in 1..(j - 1) : translations[h].index # <<x>>

\* C11: the result of translateTranscript has one unit for each input index
\* the answer translates and no other unit; the unit carries the text of
\* the first occurrence of the index and the start and end of the input
\* unit at that index; the result is in ascending start order whatever the
\* order of the answer, so for inputs in start order it is in index order
\* (index 2 twice and no index 1 for three units gives units 0 and 2).
C11_MapsByIndex ==
    Mapped =>
        /\ Len(result) = Cardinality(Translated)
        /\ \A x \in Translated :
              \E r \in 1..Len(result) :
                 result[r] = Unit(mergedSegments[x + 1].start,
                                  mergedSegments[x + 1].end,
                                  translations[FirstOccurrence(x)].text)
        /\ \A r \in 1..(Len(result) - 1) :
              result[r].start <= result[r + 1].start
        /\ ( /\ Len(mergedSegments) = 3
             /\ Translated = {0, 2}
             /\ \A k \in 1..2 :
                   mergedSegments[k].start < mergedSegments[k + 1].start )
           => /\ Len(result) = 2
              /\ result[1].start = mergedSegments[1].start
              /\ result[2].start = mergedSegments[3].start
        /\ segments = result

\* scenario C with the answer out of order: index 2, index 0, index 2 again
C11_Witness ==
    /\ Mapped
    /\ Len(mergedSegments) = 3
    /\ [k \in 1..Len(translations) |-> translations[k].index]
          = << <<2>>, <<0>>, <<2>> >>
    /\ result = << Unit(0, Sec(2), <<"B">>), Unit(Sec(6), Sec(8), <<"A">>) >>

\* C12: an index outside [0, N), negative ones included, is discarded: the
\* mapping does not fail on it, and every unit of the result comes from an
\* input unit.
C12_OutOfRangeDiscarded ==
    /\ pc # "fallback"
    /\ pc = "tts" => Mapped
    /\ Mapped =>
          \A r \in 1..Len(result) :
             \E x \in 1..Len(mergedSegments) :
                /\ result[r].start = mergedSegments[x].start
                /\ result[r].end = mergedSegments[x].end

\* getYouTubeTranscript has returned its merged units
MergedReady == pc \in {"map", "fallback", "tts"}

\* the fragments a unit was merged from: one more than the separating
\* spaces of its text (no fragment text holds a space)
FragmentCount(unit) ==
    1 + Cardinality({ k \in 1..Len(unit.text) : unit.text[k] = " " })

\* the first and the last fragment (1-based) of merged unit u
RECURSIVE UnitHi(_)
UnitHi(u) == IF u = 0 THEN 0 ELSE UnitHi(u - 1) + FragmentCount(mergedSegments[u])

UnitLo(u) == UnitHi(u - 1) + 1

\* the texts of units[lo..hi], a single space between two of them
RECURSIVE JoinTexts(_, _, _)
JoinTexts(units, lo, hi) ==
    IF lo > hi THEN << >>
    ELSE IF lo = hi THEN units[lo].text
    ELSE units[lo].text \o <<" ">> \o JoinTexts(units, lo + 1, hi)

OrderedByStart(units) ==
    \A k \in 1..(Len(units) - 1) : units[k].start <= units[k + 1].start

\* no unit ends after the next one starts
NonOverlapping(units) ==
    \A k \in 1..(Len(units) - 1) : units[k].end <= units[k + 1].start

PairwiseNonOverlapping(units) ==
    \A u \in 1..Len(units) : \A v \in (u + 1)..Len(units) :
        units[u].end <= units[v].start

\* the merged units hold every fragment text once, in the original order
TextsKept ==
    JoinTexts(mergedSegments, 1, Len(mergedSegments))
        = JoinTexts(captionSegments, 1, Len(captionSegments))

\* C13 as stated: for fragments in start order the merged units do not
\* overlap, are in start order, and hold every fragment text once, in order.
C13_NonOverlappingOrdered ==
    (MergedReady /\ OrderedByStart(captionSegments)) =>
        /\ PairwiseNonOverlapping(mergedSegments)
        /\ OrderedByStart(mergedSegments)
        /\ TextsKept

\* C13 amended: for fragments in start order the merged units are in start
\* order and hold every fragment text once, in order; they do not overlap
\* when no fragment ends after the next one starts.
C13_OrderedTextsKept ==
    (MergedReady /\ OrderedByStart(captionSegments)) =>
        /\ OrderedByStart(mergedSegments)
        /\ TextsKept
        /\ NonOverlapping(captionSegments) =>
               PairwiseNonOverlapping(mergedSegments)

\* three fragments that do not overlap, the first two merged
C13_Witness ==
    /\ MergedReady
    /\ Len(captionSegments) = 3
    /\ OrderedByStart(captionSegments)
    /\ NonOverlapping(captionSegments)
    /\ Len(mergedSegments) = 2
    /\ FragmentCount(mergedSegments[1]) = 2

C15_CapUnlessSingle ==
    MergedReady =>
        \A u \in 1..Len(mergedSegments) :
            mergedSegments[u].end - mergedSegments[u].start >= Sec(MergeCapSec)
            => /\ FragmentCount(mergedSegments[u]) = 1
               /\ mergedSegments[u] \in
                     { captionSegments[k] : k \in 1..Len(captionSegments) }

\* a 12 s fragment on its own, next to a unit merged from two fragments
C15_Witness ==
    /\ MergedReady
    /\ \E u \in 1..Len(mergedSegments) :
          mergedSegments[u].end - mergedSegments[u].start >= Sec(MergeCapSec)
    /\ \E v \in 1..Len(mergedSegments) :
          FragmentCount(mergedSegments[v]) >= 2

StrictUnits(units) ==
    /\ \A k \in 1..Len(units) : units[k].start < units[k].end
    /\ \A k \in 1..(Len(units) - 1) : units[k].start < units[k + 1].start

\* C16: for fragments in start order, every merged unit, and every unit
\* the translation mapper returns, starts before it ends, and no two units
\* start at the same time.
C16_StrictlyOrdered ==
    OrderedByStart(captionSegments) =>
        /\ MergedReady => StrictUnits(mergedSegments)
        /\ Mapped => StrictUnits(segments)

\* C17: the history listing shows the track of the current run only once
\* the run has completed successfully.
C17_ListsOnlyCompleted ==
    \A p \in HistoryGET(files) : files[p].run = run => Succeeded

\* the mix command was run and left no track (Spec has a single run)
MixFailed == mixArgs # << >> /\ ~Exists(files, FinalAudioPath)

StageCount(stage) ==
    Cardinality({ k \in 1..Len(events) : events[k] = stage })

\* C18: when the mixer fails the run ends with the error event and without
\* a done event, writes no sidecar, does not start normalization, and has
\* removed the filter script and every speed-adjusted clip.
C18_MixFailureFatal ==
    MixFailed =>
        /\ pc = "closed"
        /\ events[Len(events)] = "error"
        /\ StageCount("done") = 0
        /\ ~Exists(files, MetadataFile)
        /\ StageCount("stitch") = 3
        /\ ~Exists(files, TempNormPath)
        /\ ~Exists(files, FilterScriptPath)
        /\ \A k \in 1..Len(adjustedSegments) :
              adjustedSegments[k].wasAdjusted =>
                  ~Exists(files, adjustedSegments[k].audioPath)

\* the mixer failed on a list that holds a speed-adjusted clip
C18_Witness ==
    /\ MixFailed
    /\ \E k \in 1..Len(adjustedSegments) : adjustedSegments[k].wasAdjusted

\* the compressor was run for resolved unit n and exited non-zero
CompressionFailed(n) == resolveLog[n].ran /\ ~resolveLog[n].ok

\* C19: when the compressor fails for a unit, the resolver records the
\* duration of the unadjusted audio for it, the file it hands to the mix
\* holds the unadjusted audio, the unit is mixed at its own start, and the
\* run is not ended before the mix.
C19_CompressionFallback ==
    \A n \in 1..Len(resolveLog) :
        CompressionFailed(n) =>
            LET e == resolveLog[n]
                a == adjustedSegments[n]
            IN  /\ a.audioDuration = e.ttsDuration
                /\ a.exactStart = e.unit.start
                /\ pc = "resolve" => files[a.audioPath] = files[a.originalPath]
                /\ pc = "closed" => mixArgs # << >>
                /\ mixArgs # << >> =>
                      /\ mixArgs[1].inputs[n] = a.audioPath
                      /\ mixArgs[1].delays[n] = DelayMs(e.unit.start)

\* a run that succeeded although the compressor failed for a unit
C19_Witness ==
    /\ Succeeded
    /\ \E n \in 1..Len(resolveLog) : CompressionFailed(n)

\* C20: a normalization step that does not leave the normalized track
\* leaves every file as it was and returns to route.ts, which then writes
\* the sidecar and sends the done event without touching the track.
C20_NormalizationFallback ==
    [][ /\ ( /\ pc = "normalize"
             /\ files'[FinalAudioPath]
                   # [files[FinalAudioPath] EXCEPT !.normalized = TRUE] )
           => /\ files' = files
              /\ pc' = "meta"
              /\ events' = Append(events, "stitch")
        /\ pc = "meta"
           => /\ pc' = "closed"
              /\ events' = Append(events, "done")
              /\ Exists(files', MetadataFile)
              /\ files'[FinalAudioPath] = files[FinalAudioPath] ]_vars

\* a run that succeeded with the unnormalized mix
C20_Witness ==
    /\ Succeeded
    /\ Exists(files, FinalAudioPath)
    /\ ~files[FinalAudioPath].normalized

\* C24: the synthesis calls are made in unit order, and every call that is
\* followed by another call is followed by a wait first.
C24_PacedCalls ==
    \A k \in 1..(Len(calls) - 1) :
        /\ calls[k].unit <= calls[k + 1].unit
        /\ calls[k].delay > 0

\* stitchAudioWithTiming has returned or thrown
StitchFinished == mixArgs # << >>

StitchKeepsOriginals ==
    pc \in {"resolve", "normalize"} =>
        \A k \in 0..MaxIdx :
            files'[SegmentPath(k)] = files[SegmentPath(k)]

\* C26: no step of stitchAudioWithTiming changes or removes a synthesized
\* clip; a speed-adjusted clip is a file of its own, never a synthesized
\* one; so every clip that was resolved is still there when the mix has
\* succeeded.
C26_OriginalsUntouched ==
    /\ [][StitchKeepsOriginals]_vars
    /\ [](\A k \in 1..Len(adjustedSegments) :
            LET a == adjustedSegments[k]
            IN  /\ a.wasAdjusted =>
                      /\ a.audioPath # a.originalPath
                      /\ \A j \in 0..MaxIdx : a.audioPath # SegmentPath(j)
                /\ Exists(files, FinalAudioPath) =>
                      Exists(files, a.originalPath))

\* a successful run whose adjusted clip left its original in place
C26_Witness ==
    /\ Succeeded
    /\ \E k \in 1..Len(adjustedSegments) :
          /\ adjustedSegments[k].wasAdjusted
          /\ Exists(files, adjustedSegments[k].originalPath)
          /\ ~Exists(files, adjustedSegments[k].audioPath)

\* C28: every clip handed to the compositor was written during this run,
\* from the cleaned text of the unit it is anchored to, by a synthesis call
\* of this run that succeeded.
C28_ClipsFromThisRun ==
    Collected =>
        \A k \in 1..Len(segmentsWithPaths) :
            LET p == segmentsWithPaths[k].audioPath
                u == p.idx + 1
            IN  /\ Exists(files, p)
                /\ files[p].run = run
                /\ files[p].text = CleanText(segments[u].text)
                /\ \E c \in 1..Len(calls) :
                      calls[c].unit = u /\ calls[c].ok

\* the run is between its first synthesis call and the mix
BeforeMix == pc \in {"tts", "retry", "resolve"}

\* C22: from the moment the run has synthesized a clip until the
\* compositor consumes it, the clip file is there as this run wrote it:
\* nothing outside the run has deleted or overwritten it.
C22_ClipsOwned ==
    BeforeMix =>
        \A k \in 1..Len(segmentFiles) :
            /\ Exists(files, segmentFiles[k])
            /\ files[segmentFiles[k]].run = run

\* C23: a run that reports success has written the track and the sidecar
\* record of the video, both in this run, whichever route served it.
C23_SuccessPersisted ==
    Succeeded =>
        /\ Exists(files, FinalAudioPath)
        /\ files[FinalAudioPath].run = run
        /\ Exists(files, MetadataFile)
        /\ files[MetadataFile].run = run

\* the speed factor of a logged call is above 1: actual / target > 1
FactorAboveOne(e) ==
    e.target.num > 0 /\ e.ttsDuration * e.target.den > e.target.num

\* ceil(log2(n / d)) for n > d > 0: the least k with n <= 2^k * d
RECURSIVE CeilLog2(_, _)
CeilLog2(n, d) == IF n <= d THEN 0 ELSE 1 + CeilLog2(n, 2 * d)

RECURSIVE Pow2(_)
Pow2(k) == IF k = 0 THEN 1 ELSE 2 * Pow2(k - 1)

\* the chain of a logged call with factor f = n / d > 1: ceil(log2 f)
\* stages, every stage at least lo and at most 2.0, every stage but the
\* last exactly 2.0, and the last within half a unit of the fourth decimal
\* of what is left of f
ChainShape(e, lo) ==
    LET n == e.ttsDuration * e.target.den
        d == e.target.num
        k == Len(e.chain)
        rest == d * Pow2(k - 1)
    IN  /\ k = CeilLog2(n, d)
        /\ \A j \in 1..k :
              /\ lo <= e.chain[j]
              /\ e.chain[j] <= AtempoMax * FixedScale
        /\ \A j \in 1..(k - 1) : e.chain[j] = AtempoMax * FixedScale
        /\ 2 * e.chain[k] * rest - 2 * FixedScale * n <= rest
        /\ 2 * FixedScale * n - 2 * e.chain[k] * rest <= rest

\* a factor that is not above 1 gives no stage and a copy of the clip
NoStageCopies(e) ==
    /\ e.chain = << >>
    /\ ~e.ran
    /\ files[AdjustedPath(SegmentPath(0))] = files[SegmentPath(0)]

\* C27 as stated: every stage factor lies in (1.0, 2.0].
C27_StagesAboveOne ==
    pc = "adjusted" =>
        LET e == resolveLog[1]
        IN  IF FactorAboveOne(e) THEN ChainShape(e, FixedScale + 1)
            ELSE NoStageCopies(e)

\* C27 amended: for a factor f > 1 the chain has ceil(log2 f) stages, each
\* with a factor in [1.0, 2.0] as written with four decimals, whose product
\* is f up to the rounding of the last stage; for f <= 1 there is no stage
\* and the clip is copied unchanged.
C27_BoundedChain ==
    pc = "adjusted" =>
        LET e == resolveLog[1]
        IN  IF FactorAboveOne(e) THEN ChainShape(e, FixedScale)
            ELSE NoStageCopies(e)

\* a factor just above 2: one stage of 2.0 and a last stage that is written
\* 1.0000
C27_Witness ==
    /\ pc = "adjusted"
    /\ FactorAboveOne(resolveLog[1])
    /\ resolveLog[1].chain = <<AtempoMax * FixedScale, FixedScale>>

\* the events sent so far
Sent == { events[k] : k \in 1..Len(events) }

\* the handler's step out of getYouTubeTranscript when it gave no captions
NoCaptionsStep == pc = "captions" /\ pc' # "merge"

\* such a step does not end the run: the handler reports the translate
\* stage and is about to call translateAudio
FallsBack ==
    NoCaptionsStep =>
        /\ pc' = "fallback"
        /\ events' = Append(events, "translate")

\* when translateAudio returns, stage 3 starts on the units it returned
ContinuesWithAudioUnits ==
    (pc = "fallback" /\ pc' # "closed") =>
        /\ pc' = "tts"
        /\ i' = 1
        /\ segments' \in RunSeqs
        /\ events' = Append(events, "translate")

\* C21: when the captions cannot be fetched the run does not abort: the
\* handler falls back to translateAudio and goes on to synthesis with the
\* units it returns.
C21_FallsBackToAudio ==
    /\ [][FallsBack]_vars
    /\ [][ContinuesWithAudioUnits]_vars
    /\ [](pc = "fallback" => "error" \notin Sent)

\* a run without captions that has synthesized a unit translateAudio
\* returned
C21_Witness ==
    /\ Len(events) >= 4
    /\ SubSeq(events, 1, 4)
         = <<"download", "download", "translate", "translate">>
    /\ captionSegments = << >>
    /\ segmentFiles # << >>

\* the order of the stages
StageRank(e) ==
    CASE e = "download" -> 1
      [] e = "translate" -> 2
      [] e = "tts" -> 3
      [] e = "stitch" -> 4
      [] OTHER -> 5

Terminal == {"done", "error"}

TerminalCount == Cardinality({ k \in 1..Len(events) : events[k] \in Terminal })

\* at most one terminal event, the last one, sent as the stream is closed;
\* a closed stream has one; the stage events never step back
OneTerminalInOrder ==
    /\ TerminalCount <= 1
    /\ \A k \in 1..Len(events) :
          events[k] \in Terminal => (k = Len(events) /\ pc = "closed")
    /\ pc = "closed" => TerminalCount = 1
    /\ \A k \in 1..(Len(events) - 1) :
          StageRank(events[k]) <= StageRank(events[k + 1])

\* C29: every run of the streaming route ends, closed, with exactly one
\* terminal event (done or error) as the last event of the stream, and its
\* stage events are in the order download, translate, tts, stitch.
C29_OneTerminalEvent ==
    /\ []OneTerminalInOrder
    /\ <>(pc = "closed")

\* a run that went through all four stages and ended with done
C29_Witness ==
    /\ pc = "closed"
    /\ events[Len(events)] = "done"
    /\ {"download", "translate", "tts", "stitch"} \subseteq Sent

\* C30: once the page has read the whole stream of a run that sent done,
\* pendingResult is set, however the reads cut the stream; and when
\* handleTranslate has ended, whichever way, loading is false.
C30_DoneReachesPage ==
    /\ pc = "ended" => ~loading
    /\ (pc \in {"reading", "ended"} /\ chunks = << >> /\ "done" \in Sent)
          => pendingResult # Null

=============================================================================
